---------------------------- MODULE Spec2Model ----------------------------
(***************************************************************************)
(* A model of src/database.py: the customer table, its embedding column,    *)
(* the validating setters, the similarity query and the two chart          *)
(* workflows, as a state machine over the module's globals and the         *)
(* database the module talks to.                                           *)
(***************************************************************************)
EXTENDS Integers, Sequences, FiniteSets, TLC

(***************************************************************************)
(* Bounds of the model.                                                    *)
(***************************************************************************)
\* Sessions one process may open before the model stops opening more.
MaxOpen == 2

(***************************************************************************)
(* Program constants.                                                      *)
(***************************************************************************)
\* similarity_chart asks for the 3 nearest rows; k's default is 3 as well.
TopK == 3
\* len(col_list) == 2 in set_column_list.
RequiredColumns == 2
\* array.array('f', ...) stores IEEE single precision: 24 significant bits.
FloatMantissaBits == 24

(***************************************************************************)
(* Strings.  A Python string is a sequence of pieces: a word (its letters  *)
(* folded to lower case in w, and the letter case it is written in, c) or  *)
(* the separator ",".  c is "lower" (age), "upper" (AGE), "title" (Age) or *)
(* "mixed" (aGe); two strings are equal iff they are equal piece by piece. *)
(***************************************************************************)
Word(w, c) == [w |-> w, c |-> c]
Sep == [w |-> ",", c |-> "sep"]
S(w, c) == << Word(w, c) >>
Join2(a, b) == a \o << Sep >> \o b

Recase(s, c) ==
    [i \in 1..Len(s) |-> IF s[i] = Sep THEN Sep ELSE Word(s[i].w, c)]

\* str.lower()
Lower(s) == Recase(s, "lower")
\* str.upper()
Upper(s) == Recase(s, "upper")
\* str.title(): every word gets a capital first letter, the rest lower case
Title(s) == Recase(s, "title")

\* str.split(","): the pieces between the separators, "" where there is none
RECURSIVE Split(_)
Split(s) ==
    IF \A i \in 1..Len(s) : s[i] # Sep
    THEN << s >>
    ELSE LET i == CHOOSE j \in 1..Len(s) :
                     /\ s[j] = Sep
                     /\ \A h \in 1..(j - 1) : s[h] # Sep
         IN  << SubSeq(s, 1, i - 1) >> \o Split(SubSeq(s, i + 1, Len(s)))

\* A sequence given by a rule, with its elements computed once.
Tuple(f) == f \o << >>

(***************************************************************************)
(* array.array('f', columns): each integer rounded to the nearest single   *)
(* precision value (ties to even).                                         *)
(***************************************************************************)
Pow2(n) == 2 ^ n
Abs(n) == IF n < 0 THEN -n ELSE n

RECURSIVE Ulp(_, _)
Ulp(a, p) == IF a \div p < Pow2(FloatMantissaBits) THEN p ELSE Ulp(a, 2 * p)

Float32(n) ==
    LET a == Abs(n)
        p == Ulp(a, 1)
        q == a \div p
        r == a % p
        m == IF 2 * r > p \/ (2 * r = p /\ q % 2 = 1) THEN q + 1 ELSE q
    IN  IF n < 0 THEN -(m * p) ELSE m * p

(***************************************************************************)
(* The database.  The customer table is absent or holds rows; width is the *)
(* dimension of its profile column, 0 when the table has no such column.   *)
(* A row's profile is NULL or a sequence of single precision numbers.      *)
(***************************************************************************)
NULL == << >>
NoTable == [exists |-> FALSE, width |-> 0, rows |-> << >>]

Row(id, name, age, income, profile) ==
    [id |-> id, name |-> name, age |-> age, income |-> income,
     profile |-> profile]

\* insert_data's ten rows, in its order
data_to_insert ==
    << << S("john", "title"),    28, 6500 >>,
       << S("jessica", "title"), 22, 7000 >>,
       << S("david", "title"),   31, 3900 >>,
       << S("matthew", "title"), 38, 5200 >>,
       << S("brandon", "title"), 35, 4700 >>,
       << S("joshua", "title"),  25, 2600 >>,
       << S("amanda", "title"),  33, 6500 >>,
       << S("lauren", "title"),  39, 5500 >>,
       << S("james", "title"),   26, 3200 >>,
       << S("olivia", "title"),  44, 8200 >> >>

\* The statements, as the engine executes them.  Each yields the new table
\* and ok = FALSE where the engine raises oracledb.DatabaseError.
DropTableIfExists(t) == [table |-> NoTable, ok |-> TRUE]

CreateTable(t) ==
    IF t.exists
    THEN [table |-> t, ok |-> FALSE]
    ELSE [table |-> [exists |-> TRUE, width |-> 0, rows |-> << >>],
          ok |-> TRUE]

\* id is generated as identity: no row is ever deleted, so the next value
\* is the number of rows plus one.
InsertMany(t, data) ==
    IF ~t.exists
    THEN [table |-> t, ok |-> FALSE]
    ELSE [table |->
              [t EXCEPT !.rows = t.rows \o
                  [i \in 1..Len(data) |->
                      Row(Len(t.rows) + i, data[i][1], data[i][2],
                          data[i][3], NULL)]],
          ok |-> TRUE]

\* alter table customer drop column profile
DropProfileColumn(t) ==
    IF ~t.exists \/ t.width = 0
    THEN [table |-> t, ok |-> FALSE]
    ELSE [table |->
              [t EXCEPT !.width = 0,
                        !.rows = [i \in 1..Len(t.rows) |->
                                     [t.rows[i] EXCEPT !.profile = NULL]]],
          ok |-> TRUE]

\* alter table customer add profile vector(n, float32)
AddProfileColumn(t, n) ==
    IF ~t.exists \/ t.width # 0 \/ n < 1
    THEN [table |-> t, ok |-> FALSE]
    ELSE [table |-> [t EXCEPT !.width = n], ok |-> TRUE]

\* The columns a select list may name (identifiers are case-insensitive),
\* and the value of each in a row.
NumericColumns == {"id", "age", "income"}
TableColumns(t) ==
    {"id", "name", "age", "income"} \cup
    (IF t.width # 0 THEN {"profile"} ELSE {})

IsColumn(t, item) == Len(item) = 1 /\ item[1].w \in TableColumns(t)

ColumnValue(row, item) ==
    CASE item[1].w = "id"     -> row.id
      [] item[1].w = "age"    -> row.age
      [] item[1].w = "income" -> row.income
      [] item[1].w = "name"   -> row.name
      [] OTHER                -> row.profile

\* select id, <column_list> from customer
SelectIdAnd(t, column_list) ==
    LET items == Split(column_list)
    IN  IF ~t.exists \/ \E i \in 1..Len(items) : ~IsColumn(t, items[i])
        THEN [rows |-> << >>, ok |-> FALSE]
        ELSE [rows |->
                  Tuple([r \in 1..Len(t.rows) |->
                      << t.rows[r].id >> \o
                      [i \in 1..Len(items) |->
                          ColumnValue(t.rows[r], items[i])]]),
              ok |-> TRUE]

\* update customer set profile = :1 where id = :2, once per bind; a vector
\* of another dimension than the column's is refused.
UpdateProfiles(t, binds) ==
    IF \/ ~t.exists
       \/ t.width = 0
       \/ \E b \in 1..Len(binds) : Len(binds[b][1]) # t.width
    THEN [table |-> t, ok |-> FALSE]
    ELSE [table |->
              [t EXCEPT !.rows =
                  [i \in 1..Len(t.rows) |->
                      LET hits == {b \in 1..Len(binds) :
                                      binds[b][2] = t.rows[i].id}
                          b    == CHOOSE m \in hits : \A h \in hits : h <= m
                      IN  IF hits = {}
                          THEN t.rows[i]
                          ELSE [t.rows[i] EXCEPT !.profile = binds[b][1]]]],
          ok |-> TRUE]

(***************************************************************************)
(* vector_distance.  Distances are compared, never printed, so each is     *)
(* kept as a key that orders as the distance does: the sum of squares for  *)
(* EUCLIDEAN (its square root is increasing), and for COSINE the sign and  *)
(* the square of the cosine as a fraction of exact integers, which do not  *)
(* fit 32-bit integers and are therefore kept as digit sequences.          *)
(***************************************************************************)
RECURSIVE ToBig(_)
ToBig(n) == IF n = 0 THEN << >> ELSE << n % (10 ^ 4) >> \o ToBig(n \div (10 ^ 4))

RECURSIVE BigAdd(_, _, _)
BigAdd(a, b, c) ==
    IF a = << >> /\ b = << >>
    THEN ToBig(c)
    ELSE LET x == (IF a = << >> THEN 0 ELSE Head(a))
                  + (IF b = << >> THEN 0 ELSE Head(b)) + c
         IN  << x % (10 ^ 4) >> \o
             BigAdd(IF a = << >> THEN a ELSE Tail(a),
                    IF b = << >> THEN b ELSE Tail(b), x \div (10 ^ 4))

RECURSIVE BigScale(_, _, _)
BigScale(a, d, c) ==
    IF a = << >>
    THEN ToBig(c)
    ELSE LET x == Head(a) * d + c
         IN  << x % (10 ^ 4) >> \o BigScale(Tail(a), d, x \div (10 ^ 4))

RECURSIVE BigMul(_, _)
BigMul(a, b) ==
    IF a = << >> \/ b = << >>
    THEN << >>
    ELSE LET high == BigMul(a, Tail(b))
             low  == IF Head(b) = 0 THEN << >> ELSE BigScale(a, Head(b), 0)
         IN  BigAdd(low, IF high = << >> THEN high ELSE << 0 >> \o high, 0)

BigLess(a, b) ==
    IF Len(a) # Len(b)
    THEN Len(a) < Len(b)
    ELSE \E i \in 1..Len(a) :
             /\ a[i] < b[i]
             /\ \A j \in (i + 1)..Len(a) : a[j] = b[j]

RECURSIVE SumOver(_, _, _)
SumOver(F(_, _), p, q) ==
    IF p = << >> THEN 0 ELSE F(Head(p), Head(q)) + SumOver(F, Tail(p), Tail(q))

SqDiff(x, y) == (x - y) * (x - y)
AbsDiff(x, y) == Abs(x - y)
Prod(x, y) == x * y
Differs(x, y) == IF x = y THEN 0 ELSE 1

Sign(n) == IF n < 0 THEN -1 ELSE IF n > 0 THEN 1 ELSE 0

\* The metrics the engine computes on float32 vectors, by name (names are
\* case-insensitive); JACCARD is defined on binary vectors only.
EngineMetrics ==
    {"cosine", "dot", "euclidean", "euclidean_squared", "manhattan",
     "hamming"}

IsEngineMetric(distance) ==
    Len(distance) = 1 /\ distance[1].w \in EngineMetrics

\* The key of vector_distance(p, q, metric); the distance is NULL when an
\* argument is, and for COSINE when an argument is the zero vector.
DistanceKey(metric, p, q) ==
    LET novalue == [null |-> TRUE, v |-> 0, num |-> << >>, den |-> << >>]
        int(v)  == [null |-> FALSE, v |-> v, num |-> << >>, den |-> << >>]
    IN  IF p = NULL \/ q = NULL
        THEN novalue
        ELSE CASE metric = "euclidean"         -> int(SumOver(SqDiff, p, q))
               [] metric = "euclidean_squared" -> int(SumOver(SqDiff, p, q))
               [] metric = "manhattan"         -> int(SumOver(AbsDiff, p, q))
               [] metric = "dot"               -> int(-SumOver(Prod, p, q))
               [] metric = "hamming"           -> int(SumOver(Differs, p, q))
               [] OTHER ->
                   LET d  == SumOver(Prod, p, q)
                       pp == SumOver(Prod, p, p)
                       qq == SumOver(Prod, q, q)
                   IN  IF pp = 0 \/ qq = 0
                       THEN novalue
                       ELSE [null |-> FALSE, v |-> -Sign(d),
                             num |-> BigMul(ToBig(Abs(d)), ToBig(Abs(d))),
                             den |-> ToBig(pp)]

\* a orders strictly before b in "order by ... " (ascending, NULLs last)
KeyLess(a, b) ==
    IF a.null \/ b.null
    THEN ~a.null /\ b.null
    ELSE IF a.v # b.v
         THEN a.v < b.v
         ELSE IF a.v < 0
              THEN BigLess(BigMul(b.num, a.den), BigMul(a.num, b.den))
              ELSE BigLess(BigMul(a.num, b.den), BigMul(b.num, a.den))

\* FetchOneByName without its where clause: the table's first row.
FetchOneAnyName(t, name) == IF Len(t.rows) > 0 THEN 1 ELSE 0

\* select profile from customer where name = :1, fetchone(): the first row
\* of that name, 0 when there is none
FetchOneByName(t, name) ==
    IF \E i \in 1..Len(t.rows) : t.rows[i].name = name
    THEN CHOOSE i \in 1..Len(t.rows) :
             /\ t.rows[i].name = name
             /\ \A j \in 1..(i - 1) : t.rows[j].name # name
    ELSE 0

\* order by vector_distance(profile, :1, metric) fetch first :2 rows only:
\* every sequence of rows the engine may return, rows at equal distance
\* coming in any order.
\* The row of cand \cap 1..n with the least key (the first of them), 0 if none.
RECURSIVE Least(_, _, _)
Least(keys, cand, n) ==
    IF n = 0
    THEN 0
    ELSE LET m == Least(keys, cand, n - 1)
         IN  IF n \notin cand
             THEN m
             ELSE IF m = 0 THEN n
             ELSE IF KeyLess(keys[n], keys[m]) THEN n ELSE m

RECURSIVE FetchFirst(_, _, _)
FetchFirst(keys, cand, k) ==
    IF k <= 0 \/ cand = {}
    THEN {<< >>}
    ELSE LET m       == Least(keys, cand, Len(keys))
             nearest == {i \in cand : ~KeyLess(keys[m], keys[i])}
         IN  UNION {{<< i >> \o rest : rest \in FetchFirst(keys, cand \ {i}, k - 1)}
                    : i \in nearest}

OrderByDistance(t, embedding, metric, k) ==
    LET keys == Tuple([i \in 1..Len(t.rows) |->
                    DistanceKey(metric, t.rows[i].profile, embedding)])
    IN  FetchFirst(keys, 1..Len(t.rows), k)

(***************************************************************************)
(* The state of one process that has imported the module, and of the       *)
(* database it talks to.                                                   *)
(***************************************************************************)
VARIABLES
    columns_list,     \* global: the column selection, a string
    customer_name,    \* global: the subject's name, a string
    distance_metric,  \* global: the metric's name, a string
    connection,       \* global: unset before init(), then None or a session
    opened,           \* sessions oracledb.connect has opened in this process
    table,            \* the customer table in the database
    last              \* the last call: its arguments and what came of it

vars == << columns_list, customer_name, distance_metric, connection, opened,
           table, last >>

Unset == [kind |-> "unset", id |-> 0]
None == [kind |-> "none", id |-> 0]
Session(n) == [kind |-> "session", id |-> n]

\* What a call has done so far: the table, the statements it executed (with
\* the session each ran on), the exception it raised ("none" so far), the
\* sessions it opened, and what it returns.
Begin(t) ==
    [table |-> t, log |-> << >>, exc |-> "none", opens |-> 0,
     metric |-> << >>, ret |-> << >>, similar |-> << >>, chart |-> << >>]

Raise(w, e) == [w EXCEPT !.exc = e]

Logged(w, conn, sql, ok) ==
    [w EXCEPT !.log = Append(@, [sql |-> sql, conn |-> conn.id, ok |-> ok])]

\* cursor.execute(sql) of a statement that changes the table
Execute(w, conn, sql, res) ==
    IF res.ok
    THEN [Logged(w, conn, sql, TRUE) EXCEPT !.table = res.table]
    ELSE Raise(Logged(w, conn, sql, FALSE), "DatabaseError")

\* connection.cursor() on the global: a NameError before init() has bound
\* the name, an AttributeError on None
CursorError(conn) ==
    CASE conn.kind = "unset" -> "NameError"
      [] conn.kind = "none"  -> "AttributeError"
      [] OTHER               -> "none"

insert_data(w, conn) ==
    IF CursorError(conn) # "none"
    THEN Raise(w, CursorError(conn))
    ELSE LET w1 == Execute(w, conn, "insert", InsertMany(w.table, data_to_insert))
         IN  IF w1.exc # "none" THEN w1 ELSE Logged(w1, conn, "commit", TRUE)

\* create_schema that keeps a table it finds and loads the rows into it.
create_schema_keeps_table(w, conn) ==
    IF CursorError(conn) # "none"
    THEN Raise(w, CursorError(conn))
    ELSE IF w.table.exists
         THEN insert_data(w, conn)
         ELSE LET w1 == Execute(w, conn, "create table", CreateTable(w.table))
              IN  IF w1.exc # "none" THEN w1 ELSE insert_data(w1, conn)

create_schema(w, conn) ==
    IF CursorError(conn) # "none"
    THEN Raise(w, CursorError(conn))
    ELSE LET w1 == Execute(w, conn, "drop table", DropTableIfExists(w.table))
             w2 == IF w1.exc # "none"
                   THEN w1
                   ELSE Execute(w1, conn, "create table", CreateTable(w1.table))
         IN  IF w2.exc # "none" THEN w2 ELSE insert_data(w2, conn)

\* ResizeProfileColumn with the add left out of the try block: the column
\* is dropped, or else added.
ResizeDropOrAdd(w, conn, n) ==
    LET drop == DropProfileColumn(w.table)
        w1   == Logged(w, conn, "drop column", drop.ok)
    IN  IF drop.ok
        THEN [w1 EXCEPT !.table = drop.table]
        ELSE Execute(w1, conn, "add column", AddProfileColumn(w.table, n))

\* The first half of vectorize_data: drop the profile column and add it
\* again with one dimension per selected column; when a statement of the
\* try block raises DatabaseError, add the column.
ResizeProfileColumn(w, conn, n) ==
    LET drop == DropProfileColumn(w.table)
        w1   == Logged(w, conn, "drop column", drop.ok)
        t1   == IF drop.ok THEN drop.table ELSE w.table
        add1 == AddProfileColumn(t1, n)
        add2 == AddProfileColumn(t1, n)
    IN  IF drop.ok /\ add1.ok
        THEN Execute([w1 EXCEPT !.table = t1], conn, "add column", add1)
        ELSE IF drop.ok
             THEN Execute(Logged([w1 EXCEPT !.table = t1], conn,
                                 "add column", FALSE),
                          conn, "add column", add2)
             ELSE Execute(w1, conn, "add column", add2)

\* The second half: one embedding per row, the selected columns' values in
\* the order given, written back by id and committed once.
WriteEmbeddings(w, conn, column_list) ==
    LET items == Split(column_list)
        sel   == SelectIdAnd(w.table, column_list)
        w1    == Logged(w, conn, "select columns", sel.ok)
        binds == Tuple([r \in 1..Len(sel.rows) |->
                     << Tuple([i \in 1..Len(items) |->
                                  Float32(sel.rows[r][i + 1])]),
                        sel.rows[r][1] >>])
    IN  IF ~sel.ok
        THEN Raise(w1, "DatabaseError")
        ELSE IF \E i \in 1..Len(items) : items[i][1].w \notin NumericColumns
             THEN Raise(w1, "TypeError")
             ELSE LET w2 == Execute(w1, conn, "update profile",
                                    UpdateProfiles(w1.table, binds))
                  IN  IF w2.exc # "none"
                      THEN w2
                      ELSE Logged(w2, conn, "commit", TRUE)

\* vectorize_data with the column's dimension written into the statement
\* instead of counted.
vectorize_data_two_wide(w, conn, column_list) ==
    IF CursorError(conn) # "none"
    THEN Raise(w, CursorError(conn))
    ELSE LET w1 == ResizeProfileColumn(w, conn, RequiredColumns)
         IN  IF w1.exc # "none"
             THEN w1
             ELSE WriteEmbeddings(w1, conn, column_list)

vectorize_data(w, conn, column_list) ==
    IF CursorError(conn) # "none"
    THEN Raise(w, CursorError(conn))
    ELSE LET w1 == ResizeProfileColumn(w, conn, Len(Split(column_list)))
         IN  IF w1.exc # "none"
             THEN w1
             ELSE WriteEmbeddings(w1, conn, column_list)

\* select name, profile from customer
SelectProfiles(t) ==
    [i \in 1..Len(t.rows) |-> << t.rows[i].name, t.rows[i].profile >>]

get_customer_profiles(w, conn) ==
    IF CursorError(conn) # "none"
    THEN Raise(w, CursorError(conn))
    ELSE IF ~w.table.exists \/ w.table.width = 0
         THEN Raise(Logged(w, conn, "select profiles", FALSE), "DatabaseError")
         ELSE [Logged(w, conn, "select profiles", TRUE)
                  EXCEPT !.ret = SelectProfiles(w.table)]

\* Every outcome of get_similiar_customer_profiles: the subject's embedding
\* is fetched by name, the metric's name is put into the query text, and
\* the engine orders the rows by their distance to that embedding.
get_similiar_customer_profiles(w, conn, column_list, name, k, distance) ==
    IF CursorError(conn) # "none"
    THEN {Raise(w, CursorError(conn))}
    ELSE IF ~w.table.exists \/ w.table.width = 0
    THEN {Raise(Logged(w, conn, "select subject", FALSE), "DatabaseError")}
    ELSE LET w1 == [Logged(w, conn, "select subject", TRUE)
                       EXCEPT !.metric = distance]
             i  == FetchOneByName(w.table, name)
         IN  IF i = 0
             THEN {Raise(w1, "TypeError")}
             ELSE IF ~IsEngineMetric(distance)
             THEN {Raise(Logged(w1, conn, "select nearest", FALSE),
                         "DatabaseError")}
             ELSE {LET similarity_resultset ==
                           [j \in 1..Len(r) |->
                               << w.table.rows[r[j]].name,
                                  w.table.rows[r[j]].profile >>]
                   IN  [Logged(w1, conn, "select nearest", TRUE)
                           EXCEPT !.ret = similarity_resultset,
                                  !.similar = similarity_resultset]
                   : r \in OrderByDistance(w.table, w.table.rows[i].profile,
                                           distance[1].w, k)}

(***************************************************************************)
(* The validating setters.  Each assigns its global first and validates    *)
(* afterwards; value is the global's new value, exc what the call raises.  *)
(***************************************************************************)
AllowedColumns ==
    {S("age", "lower"), S("income", "lower"), S("is_single", "lower"),
     S("no_children", "lower"), S("no_cars", "lower")}

AllowedCustomers ==
    {S("jessica", "title"), S("david", "title"), S("matthew", "title"),
     S("brandon", "title"), S("joshua", "title"), S("amanda", "title"),
     S("lauren", "title"), S("james", "title"), S("olivia", "title")}

AllowedDistances ==
    {S("cosine", "upper"), S("euclidean", "upper"),
     S("euclidean_squared", "upper"), S("hammer", "upper"),
     S("manhattan", "upper"), S("jaccard", "upper"), S("dot", "upper")}

set_column_list(columns) ==
    LET col_list == Split(Lower(columns))
    IN  [value |-> Lower(columns),
         exc   |-> IF Len(col_list) # RequiredColumns
                   THEN "Exception"
                   ELSE IF \E i \in 1..Len(col_list) :
                               col_list[i] \notin AllowedColumns
                        THEN "Exception"
                        ELSE "none"]

set_customer(name) ==
    [value |-> Title(name),
     exc   |-> IF Title(Title(name)) \notin AllowedCustomers
               THEN "Exception"
               ELSE "none"]

set_distance_metric(distance) ==
    [value |-> Upper(distance),
     exc   |-> IF Upper(Upper(distance)) \notin AllowedDistances
               THEN "Exception"
               ELSE "none"]

(***************************************************************************)
(* The charts: one point per row of all_profiles.                          *)
(***************************************************************************)
PlotError(profiles) ==
    IF \E i \in 1..Len(profiles) : profiles[i][2] = NULL
    THEN "TypeError"
    ELSE IF \E i \in 1..Len(profiles) : Len(profiles[i][2]) < 2
         THEN "IndexError"
         ELSE "none"

OverviewPoints(profiles) ==
    [i \in 1..Len(profiles) |->
        [name   |-> profiles[i][1],
         x      |-> profiles[i][2][1],
         y      |-> profiles[i][2][2],
         label  |-> << profiles[i][1], profiles[i][2][1], profiles[i][2][2] >>,
         color  |-> "black",
         weight |-> "normal"]]

\* SimilarityPoints with the weight decided as the colour is: by the
\* subject's name.
SimilarityPointsSubjectBold(profiles, similiar_profiles, subject) ==
    [i \in 1..Len(profiles) |->
        [name   |-> profiles[i][1],
         x      |-> profiles[i][2][1],
         y      |-> profiles[i][2][2],
         label  |-> << profiles[i][1] >>,
         color  |-> IF profiles[i][1] = subject THEN "red" ELSE "black",
         weight |-> IF profiles[i][1] = subject THEN "bold" ELSE "normal"]]

SimilarityPoints(profiles, similiar_profiles, subject) ==
    [i \in 1..Len(profiles) |->
        [name   |-> profiles[i][1],
         x      |-> profiles[i][2][1],
         y      |-> profiles[i][2][2],
         label  |-> << profiles[i][1] >>,
         color  |-> IF profiles[i][1] = subject THEN "red" ELSE "black",
         weight |-> IF profiles[i][1] \in similiar_profiles
                    THEN "bold"
                    ELSE "normal"]]

Plot(w, points) ==
    IF PlotError(w.ret) # "none"
    THEN Raise(w, PlotError(w.ret))
    ELSE [w EXCEPT !.chart = points]

\* create_schema() and vectorize_data(columns_list), as both charts run them
Rebuild(w, conn, column_list) ==
    LET w1 == create_schema(w, conn)
    IN  IF w1.exc # "none" THEN w1 ELSE vectorize_data(w1, conn, column_list)

\* customers_chart after its two setters have passed
customers_chart_body(w, conn, column_list) ==
    LET w1 == Rebuild(w, conn, column_list)
        w2 == IF w1.exc # "none" THEN w1 ELSE get_customer_profiles(w1, conn)
    IN  IF w2.exc # "none" THEN w2 ELSE Plot(w2, OverviewPoints(w2.ret))

\* get_connection that hands back a session object whether or not the
\* connect succeeded.
get_connection_never_none(connects) == Session(opened + 1)

\* get_connection(): a session when connect succeeds, else None
get_connection(connects) ==
    IF connects THEN Session(opened + 1) ELSE None

\* similarity_chart after its three setters have passed: every outcome.
\* Its get_connection() result is bound to a local name; the statements
\* run on the global.
similarity_chart_body(w, conn, connects, column_list, subject, distance) ==
    LET w0 == [w EXCEPT !.opens = IF connects THEN 1 ELSE 0]
        w1 == Rebuild(w0, conn, column_list)
    IN  IF w1.exc # "none"
        THEN {w1}
        ELSE {LET names == {w2.similar[i][1] : i \in 1..Len(w2.similar)}
                  w3    == IF w2.exc # "none"
                           THEN w2
                           ELSE get_customer_profiles(w2, conn)
              IN  IF w3.exc # "none"
                  THEN w3
                  ELSE Plot(w3, SimilarityPoints(w3.ret, names, subject))
              : w2 \in get_similiar_customer_profiles(
                           w1, conn, column_list, subject, TopK, distance)}

(***************************************************************************)
(* The calls a program makes, and their arguments.                         *)
(***************************************************************************)
Empty == << >>

AgeIncome == Join2(S("age", "lower"), S("income", "lower"))
IncomeAge == Join2(S("income", "lower"), S("age", "lower"))

\* Arguments of the setters.
ColumnInputs ==
    {AgeIncome,
     IncomeAge,
     Join2(S("age", "upper"), S("income", "title")),
     Join2(S("no_cars", "lower"), S("no_children", "mixed")),
     Join2(S("age", "lower"), S("is_single", "lower")),
     Join2(S("age", "lower"), S("age", "lower")),
     S("age", "lower"),
     Join2(AgeIncome, S("no_cars", "lower")),
     Join2(S("age", "lower"), S("salary", "lower")),
     Join2(S("age", "lower"), Empty),
     Empty}

DistanceInputs ==
    {S("cosine", "title"), S("euclidean", "lower"), S("euclidean", "upper"),
     S("euclidean_squared", "mixed"), S("manhattan", "lower"),
     S("jaccard", "lower"), S("dot", "upper"), S("hammer", "lower"),
     S("hamming", "lower"), S("chebyshev", "lower"), Empty}

CustomerInputs ==
    {S("jessica", "lower"), S("jessica", "upper"), S("brandon", "title"),
     S("olivia", "mixed"), S("john", "title"), S("bob", "title"), Empty}

\* Arguments of the chart workflows.
ChartColumnInputs ==
    {AgeIncome,
     S("age", "lower"),
     Join2(S("age", "lower"), S("salary", "lower")),
     Join2(S("age", "lower"), S("is_single", "lower"))}

ChartDistanceInputs ==
    {S("euclidean", "lower"), S("dot", "upper"), S("hammer", "lower"),
     S("chebyshev", "lower")}

ChartCustomerInputs ==
    {S("jessica", "lower"), S("brandon", "title"), S("john", "title")}

\* Arguments of vectorize_data: one or two columns, there or not.
VectorizeInputs ==
    {S("age", "lower"), S("income", "lower"), S("income", "upper"),
     S("id", "lower"), AgeIncome, IncomeAge,
     Join2(S("age", "lower"), S("age", "lower")),
     Join2(S("id", "lower"), S("income", "title")),
     Join2(S("age", "lower"), S("is_single", "lower")), S("name", "lower")}

\* Arguments of get_similiar_customer_profiles and of the vectorize_data
\* calls before it.
QueryVectorizeInputs == {AgeIncome, IncomeAge}

QueryInputs ==
    ((AllowedCustomers \cup {S("john", "title"), S("bob", "title")})
        \X {S("euclidean", "upper")})
    \cup
    ({S("jessica", "title"), S("brandon", "title")}
        \X {S("cosine", "upper"), S("dot", "upper"), S("manhattan", "lower"),
            S("hammer", "upper"), S("jaccard", "upper")})

\* The record of a call: the arguments of a function called directly (a
\* setter and a chart leave theirs in the globals), and what came of it.
\* again: the call before it was the same call with the same arguments and
\* raised nothing.
Done(op, columns, name, distance, w) ==
    [op       |-> op,
     columns  |-> columns,
     name     |-> name,
     distance |-> distance,
     again    |-> /\ last.op = op
                  /\ last.columns = columns
                  /\ last.name = name
                  /\ last.distance = distance
                  /\ last.exc = "none",
     exc      |-> w.exc,
     log      |-> w.log,
     opens    |-> w.opens,
     metric   |-> w.metric,
     ret      |-> w.ret,
     similar  |-> w.similar,
     chart    |-> w.chart]

\* The tables a process may find when it starts: none, or what an earlier
\* process left behind.
SeededTable == create_schema(Begin(NoTable), Session(1)).table

InitialTables ==
    {NoTable,
     SeededTable,
     vectorize_data(Begin(SeededTable), Session(1), AgeIncome).table}

Init ==
    /\ columns_list = Empty
    /\ customer_name = Empty
    /\ distance_metric = Empty
    /\ connection = Unset
    /\ opened = 0
    /\ table \in InitialTables
    /\ last = [op |-> "import", columns |-> Empty, name |-> Empty,
               distance |-> Empty, again |-> FALSE, exc |-> "none",
               log |-> << >>, opens |-> 0, metric |-> << >>, ret |-> << >>,
               similar |-> << >>, chart |-> << >>]

\* init(), the call a program starts with: connects may fail
InitCall ==
    /\ connection = Unset
    /\ \E connects \in BOOLEAN :
          /\ connects => opened < MaxOpen
          /\ connection' = get_connection(connects)
          /\ opened' = IF connects THEN opened + 1 ELSE opened
          /\ last' = Done("init", Empty, Empty, Empty,
                          [Begin(table) EXCEPT
                              !.opens = IF connects THEN 1 ELSE 0])
    /\ UNCHANGED << columns_list, customer_name, distance_metric, table >>

SetColumnList(columns) ==
    LET r == set_column_list(columns)
    IN  /\ columns_list' = r.value
        /\ last' = Done("set_column_list", Empty, Empty, Empty,
                        Raise(Begin(table), r.exc))
        /\ UNCHANGED << customer_name, distance_metric, connection, opened,
                        table >>

SetCustomer(name) ==
    LET r == set_customer(name)
    IN  /\ customer_name' = r.value
        /\ last' = Done("set_customer", Empty, Empty, Empty,
                        Raise(Begin(table), r.exc))
        /\ UNCHANGED << columns_list, distance_metric, connection, opened,
                        table >>

SetDistanceMetric(distance) ==
    LET r == set_distance_metric(distance)
    IN  /\ distance_metric' = r.value
        /\ last' = Done("set_distance_metric", Empty, Empty, Empty,
                        Raise(Begin(table), r.exc))
        /\ UNCHANGED << columns_list, customer_name, connection, opened,
                        table >>

CreateSchema ==
    LET w == create_schema(Begin(table), connection)
    IN  /\ table' = w.table
        /\ last' = Done("create_schema", Empty, Empty, Empty, w)
        /\ UNCHANGED << columns_list, customer_name, distance_metric,
                        connection, opened >>

VectorizeData(column_list) ==
    LET w == vectorize_data(Begin(table), connection, column_list)
    IN  /\ table' = w.table
        /\ last' = Done("vectorize_data", column_list, Empty, Empty, w)
        /\ UNCHANGED << columns_list, customer_name, distance_metric,
                        connection, opened >>

GetSimilarCustomerProfiles(name, distance) ==
    \E w \in get_similiar_customer_profiles(
                 Begin(table), connection, columns_list, name, TopK, distance) :
        /\ last' = Done("get_similiar_customer_profiles", columns_list, name,
                        distance, w)
        /\ UNCHANGED << columns_list, customer_name, distance_metric,
                        connection, opened, table >>

CustomersChart(columns, distance) ==
    LET sc == set_column_list(columns)
        sd == set_distance_metric(distance)
        w  == IF sc.exc # "none"
              THEN Raise(Begin(table), sc.exc)
              ELSE IF sd.exc # "none"
                   THEN Raise(Begin(table), sd.exc)
                   ELSE customers_chart_body(Begin(table), connection, sc.value)
    IN  /\ columns_list' = sc.value
        /\ distance_metric' = IF sc.exc = "none" THEN sd.value ELSE distance_metric
        /\ table' = w.table
        /\ last' = Done("customers_chart", Empty, Empty, Empty, w)
        /\ UNCHANGED << customer_name, connection, opened >>

SimilarityChart(columns, cust_name, distance) ==
    LET sc == set_column_list(columns)
        sd == set_distance_metric(distance)
        sn == set_customer(cust_name)
        setters == IF sc.exc # "none" THEN sc.exc
                   ELSE IF sd.exc # "none" THEN sd.exc
                   ELSE sn.exc
    IN  /\ columns_list' = sc.value
        /\ distance_metric' = IF sc.exc = "none" THEN sd.value ELSE distance_metric
        /\ customer_name' = IF sc.exc = "none" /\ sd.exc = "none"
                            THEN sn.value
                            ELSE customer_name
        /\ \E w \in IF setters # "none"
                  THEN {Raise(Begin(table), setters)}
                  ELSE UNION {similarity_chart_body(Begin(table), connection,
                                  connects, sc.value, sn.value, sd.value)
                              : connects \in BOOLEAN} :
              /\ opened + w.opens <= MaxOpen
              /\ opened' = opened + w.opens
              /\ table' = w.table
              /\ last' = Done("similarity_chart", Empty, Empty, Empty, w)
        /\ UNCHANGED connection

\* A program that drives the two chart workflows.
Next ==
    \/ InitCall
    \/ \E c \in ChartColumnInputs, d \in ChartDistanceInputs :
           CustomersChart(c, d)
    \/ \E c \in ChartColumnInputs, n \in ChartCustomerInputs,
          d \in ChartDistanceInputs :
           SimilarityChart(c, n, d)

Spec == Init /\ [][Next]_vars

\* A program that calls the validating setters.
NextSetters ==
    \/ \E c \in ColumnInputs : SetColumnList(c)
    \/ \E d \in DistanceInputs : SetDistanceMetric(d)
    \/ \E n \in CustomerInputs : SetCustomer(n)

SpecSetters == Init /\ [][NextSetters]_vars

\* A program that builds the table and its embeddings itself.
NextVectorize ==
    \/ InitCall
    \/ CreateSchema
    \/ \E c \in VectorizeInputs : VectorizeData(c)

SpecVectorize == Init /\ [][NextVectorize]_vars

\* A program that builds the embeddings and queries them.
NextQuery ==
    \/ InitCall
    \/ CreateSchema
    \/ \E c \in QueryVectorizeInputs : VectorizeData(c)
    \/ \E q \in QueryInputs : GetSimilarCustomerProfiles(q[1], q[2])

SpecQuery == Init /\ [][NextQuery]_vars

(***************************************************************************)
(* What the properties below speak of.                                     *)
(***************************************************************************)
ChartOps == {"customers_chart", "similarity_chart"}

\* The number of names in a comma-separated selection.
NumCols(s) == Cardinality({i \in 1..Len(s) : s[i] = Sep}) + 1

\* The column names and the six metric names the specification allows.
ColumnNames == {"age", "income", "is_single", "no_children", "no_cars"}
SixMetrics == {"cosine", "euclidean", "euclidean_squared", "manhattan",
               "jaccard", "dot"}

\* s is a selection of exactly two allowed column names (in any case).
TwoAllowedColumns(s) ==
    /\ Len(s) = 3
    /\ s[2] = Sep
    /\ s[1] # Sep /\ s[1].w \in ColumnNames
    /\ s[3] # Sep /\ s[3].w \in ColumnNames

\* s is one of the six metric names (in any case).
OneOfSixMetrics(s) == Len(s) = 1 /\ s[1] # Sep /\ s[1].w \in SixMetrics

RowNamed(name) == CHOOSE i \in 1..Len(table.rows) : table.rows[i].name = name

\* Every row carries the embedding [age, income].
VectorizedOnAgeIncome ==
    /\ table.exists
    /\ table.width = 2
    /\ \A i \in 1..Len(table.rows) :
          table.rows[i].profile = << table.rows[i].age, table.rows[i].income >>

(***************************************************************************)
(* C1: after every successful customers_chart("age,income", "euclidean"),  *)
(* whatever calls came before it, the table holds exactly the ten seed     *)
(* rows, each with a non-null embedding of length 2 equal to its own       *)
(* [age, income].                                                          *)
(***************************************************************************)
C1_Case ==
    /\ last.op = "customers_chart"
    /\ last.exc = "none"
    /\ columns_list = AgeIncome
    /\ distance_metric = S("euclidean", "upper")

C1_TenSeedRowsEmbedded ==
    C1_Case =>
        /\ table.exists
        /\ Len(table.rows) = 10
        /\ Len(data_to_insert) = 10
        /\ \A i \in 1..Len(table.rows) :
              /\ table.rows[i].name = data_to_insert[i][1]
              /\ table.rows[i].age = data_to_insert[i][2]
              /\ table.rows[i].income = data_to_insert[i][3]
              /\ table.rows[i].profile # NULL
              /\ Len(table.rows[i].profile) = 2
              /\ table.rows[i].profile =
                     << table.rows[i].age, table.rows[i].income >>
        /\ \A i, j \in 1..Len(table.rows) :
              table.rows[i].id = table.rows[j].id => i = j

\* The chart was drawn a second time in a row, over a table the first left.
C1_SecondChartDrawn == C1_Case /\ last.again /\ Len(last.chart) = 10

(***************************************************************************)
(* C2: on a table vectorized on (age, income), for every allow-listed      *)
(* subject, get_similiar_customer_profiles(columns, subject, 3,            *)
(* "EUCLIDEAN") returns at most 3 (name, embedding) pairs of distinct rows *)
(* in non-decreasing Euclidean distance to the subject's embedding; no row *)
(* left out is strictly closer than a returned one; no distance is         *)
(* negative.  The distances are compared by their squares.                 *)
(***************************************************************************)
C2_Case ==
    /\ last.op = "get_similiar_customer_profiles"
    /\ last.exc = "none"
    /\ last.name \in AllowedCustomers
    /\ last.distance = S("euclidean", "upper")
    /\ VectorizedOnAgeIncome

C2_SquaredDistance(p) ==
    LET s == table.rows[RowNamed(last.name)]
    IN  (p[1] - s.age) * (p[1] - s.age) + (p[2] - s.income) * (p[2] - s.income)

C2_NearestInOrder ==
    C2_Case =>
        LET ret == last.ret
            returned == {i \in 1..Len(table.rows) :
                            \E j \in 1..Len(ret) :
                                ret[j] = << table.rows[i].name,
                                            table.rows[i].profile >>}
        IN  /\ Len(ret) <= 3
            /\ Cardinality(returned) = Len(ret)
            /\ \A i, j \in 1..Len(ret) :
                  i < j => C2_SquaredDistance(ret[i][2])
                              <= C2_SquaredDistance(ret[j][2])
            /\ \A i \in (1..Len(table.rows)) \ returned :
                  \A j \in 1..Len(ret) :
                      C2_SquaredDistance(table.rows[i].profile)
                          >= C2_SquaredDistance(ret[j][2])
            /\ \A i \in 1..Len(table.rows) :
                  C2_SquaredDistance(table.rows[i].profile) >= 0

\* Three rows came back for a subject that is not the table's first row,
\* the subject first.
C2_ThreeReturned ==
    /\ C2_Case
    /\ Len(last.ret) = 3
    /\ last.name = S("brandon", "title")
    /\ last.ret[1][1] = last.name

(***************************************************************************)
(* C3: set_column_list succeeds for every selection of exactly two allowed *)
(* names, and for every other selection raises a validation error and      *)
(* leaves columns_list as it was before the call.                          *)
(***************************************************************************)
C3_RejectedLeavesSelection ==
    [][last'.op = "set_column_list" =>
          IF TwoAllowedColumns(columns_list')
          THEN last'.exc = "none"
          ELSE last'.exc = "Exception" /\ columns_list' = columns_list]_vars

(***************************************************************************)
(* C4: the distance setter accepts exactly the six metric names, in any    *)
(* letter case, so a chart gets past its setters only with one of them,    *)
(* and the metric name put into the query text is one of the six.          *)
(***************************************************************************)
C4_OnlySixMetricsPass ==
    /\ (last.op \in ChartOps /\ last.exc # "Exception")
          => OneOfSixMetrics(distance_metric)
    /\ (last.op = "similarity_chart" /\ last.metric # Empty)
          => OneOfSixMetrics(last.metric)

(***************************************************************************)
(* C5: a chart called with a wrong column count, an unknown column name,   *)
(* an unknown distance metric or (similarity_chart) an unknown subject     *)
(* raises the validation error before any database work: it opens no       *)
(* session, executes no statement and leaves the table as it was.          *)
(***************************************************************************)
C5_InvalidParameter ==
    \/ ~TwoAllowedColumns(columns_list)
    \/ ~OneOfSixMetrics(distance_metric)
    \/ last.op = "similarity_chart" /\ customer_name \notin AllowedCustomers

C5_InvalidCallDoesNoDatabaseWork ==
    [][(last'.op \in ChartOps /\ C5_InvalidParameter') =>
          /\ last'.exc = "Exception"
          /\ last'.log = << >>
          /\ last'.opens = 0
          /\ opened' = opened
          /\ table' = table]_vars

(***************************************************************************)
(* C6: after every successful vectorize_data call the profile column is as *)
(* wide as the call's column list and so is every row's embedding; the     *)
(* call drops the column if present and adds it before it writes; a call   *)
(* naming numeric columns of an existing table over a session succeeds;    *)
(* and no row ever holds an embedding of another length than the column's. *)
(***************************************************************************)
C6_Succeeded == last.op = "vectorize_data" /\ last.exc = "none"

C6_StatementAt(sql, ok) ==
    {i \in 1..Len(last.log) : last.log[i].sql = sql /\ last.log[i].ok = ok}

C6_ColumnResizedBeforeWrite ==
    /\ C6_Succeeded =>
          /\ table.width = NumCols(last.columns)
          /\ \A i \in 1..Len(table.rows) :
                /\ table.rows[i].profile # NULL
                /\ Len(table.rows[i].profile) = NumCols(last.columns)
          /\ last.log[1].sql = "drop column"
          /\ \E a \in C6_StatementAt("add column", TRUE) :
                \A u \in C6_StatementAt("update profile", TRUE) : a < u
          /\ C6_StatementAt("update profile", TRUE) # {}
    /\ ( /\ last.op = "vectorize_data"
         /\ table.exists
         /\ connection.kind = "session"
         /\ \A i \in 1..Len(last.columns) :
               last.columns[i] = Sep \/ last.columns[i].w \in NumericColumns )
          => last.exc = "none"
    /\ \A i \in 1..Len(table.rows) :
          \/ table.rows[i].profile = NULL
          \/ Len(table.rows[i].profile) = table.width

\* A one-column call succeeded on a table whose column it had to drop.
C6_ResizedToOneColumn ==
    /\ C6_Succeeded
    /\ NumCols(last.columns) = 1
    /\ table.width = 1
    /\ last.log[1].ok

(***************************************************************************)
(* C7: vectorize_data called again with the same two-column selection,     *)
(* right after a call that succeeded, succeeds and leaves every row, and   *)
(* every row's embedding, as the first call left it.                       *)
(***************************************************************************)
C7_Repeated ==
    /\ last.op = "vectorize_data"
    /\ last.again
    /\ NumCols(last.columns) = 2

C7_SecondRunChangesNothing ==
    [][C7_Repeated' => (last'.exc = "none" /\ table' = table)]_vars

C7_SecondRunDone == C7_Repeated /\ last.exc = "none" /\ table.width = 2

(***************************************************************************)
(* C8: one session is opened per process, by init(); no chart opens        *)
(* another, and every statement of a chart runs on the session init()      *)
(* stored.                                                                 *)
(***************************************************************************)
C8_OneSessionOnly ==
    /\ opened <= 1
    /\ last.op \in ChartOps => last.opens = 0
    /\ last.op \in ChartOps =>
          \A i \in 1..Len(last.log) : last.log[i].conn = connection.id

(***************************************************************************)
(* C9: a failed connect makes init() store None and raise nothing; from    *)
(* then on every chart call ends in an error before it has executed a      *)
(* statement and returns no chart; after a successful init() no chart call *)
(* fails for lack of a connection.                                         *)
(***************************************************************************)
C9_NoConnectionFailsOnFirstUse ==
    /\ (last.op = "init" /\ last.opens = 0)
          => (connection = None /\ last.exc = "none")
    /\ (last.op \in ChartOps /\ connection = None) =>
          /\ last.exc \in {"Exception", "AttributeError"}
          /\ \A i \in 1..Len(last.log) : ~last.log[i].ok
          /\ last.chart = << >>
    /\ (last.op \in ChartOps /\ connection.kind = "session")
          => last.exc \notin {"AttributeError", "NameError"}

\* A chart with valid arguments failed on the None that init() stored.
C9_FailedOnNone ==
    /\ last.op = "customers_chart"
    /\ connection = None
    /\ last.exc = "AttributeError"

(***************************************************************************)
(* C10 as claimed: in a similarity chart the bold points are the subject   *)
(* and its 3 nearest neighbours, the subject not counted among the 3; the  *)
(* subject's label alone is red; all other points are normal.              *)
(***************************************************************************)
C10_Drawn == last.op = "similarity_chart" /\ last.exc = "none"

C10_Bold == {last.chart[i].name : i \in {j \in 1..Len(last.chart) :
                                            last.chart[j].weight = "bold"}}
C10_Red == {last.chart[i].name : i \in {j \in 1..Len(last.chart) :
                                           last.chart[j].color = "red"}}

\* The distance of row i to the subject under the chosen metric.
C10_Key(i) ==
    DistanceKey(distance_metric[1].w, table.rows[i].profile,
                table.rows[RowNamed(customer_name)].profile)

\* near is a set of n rows, taken from cand, none farther than a row of
\* cand left out.
C10_Nearest(near, cand, n) ==
    /\ near \subseteq cand
    /\ Cardinality(near) = n
    /\ \A i \in near : \A j \in cand \ near : ~KeyLess(C10_Key(j), C10_Key(i))

C10_BoldIsSubjectAndThreeNeighbours ==
    C10_Drawn =>
        LET all     == 1..Len(table.rows)
            subject == RowNamed(customer_name)
            bold    == {i \in all : table.rows[i].name \in C10_Bold}
        IN  /\ subject \in bold
            /\ C10_Nearest(bold \ {subject}, all \ {subject}, TopK)
            /\ C10_Red = {customer_name}

(***************************************************************************)
(* C10 as amended: the bold points are the rows the similarity query       *)
(* returned, the 3 rows nearest to the subject's embedding with the        *)
(* subject's own row a candidate like any other: under EUCLIDEAN the       *)
(* subject and its 2 nearest neighbours.  The subject's label alone is     *)
(* red; all other points are normal.                                       *)
(***************************************************************************)
C10_BoldIsTheThreeNearestRows ==
    C10_Drawn =>
        LET all     == 1..Len(table.rows)
            subject == RowNamed(customer_name)
            bold    == {i \in all : table.rows[i].name \in C10_Bold}
        IN  /\ C10_Bold = {last.similar[i][1] : i \in 1..Len(last.similar)}
            /\ C10_Nearest(bold, all, TopK)
            /\ distance_metric = S("euclidean", "upper") =>
                  /\ subject \in bold
                  /\ C10_Nearest(bold \ {subject}, all \ {subject}, TopK - 1)
            /\ C10_Red = {customer_name}
            /\ \A i \in 1..Len(last.chart) :
                  last.chart[i].name \notin C10_Bold
                      => last.chart[i].weight = "normal"

\* A chart was drawn with three bold points, the subject one of them.
C10_ThreeBold ==
    /\ C10_Drawn
    /\ Cardinality(C10_Bold) = 3
    /\ customer_name \in C10_Bold
    /\ distance_metric = S("euclidean", "upper")
=============================================================================
